---- MODULE Spec2Model ----
(***************************************************************************)
(* A model of sexp_parse (prism/language/sexp/_parse.cpp): the single-pass *)
(* s-expression tokenizer/parser.  Code points are integers.  A PyList is  *)
(* a sequence of nodes; the accumulator stack return_stack is a sequence   *)
(* of such sequences whose last element is return_stack.back().            *)
(***************************************************************************)
EXTENDS Integers, Sequences, FiniteSets, TLC

\* ------------------------------------------------------------ constants
c_quote == 34

c_escape == 92

c_lpar == 40

c_rpar == 41

\* str_len > 100 abbreviates the Malformed message ...
AbbrevOver == 100

\* ... to PyUnicode_Substring(sexp_str, 0, 72)
AbbrevTo == 72

\* ---------------------------------------------------------------- bounds
\* every input over Alphabet of at most MaxLen code points is explored
MaxLen == 5

\* ( ) " \ space n x : the structural characters, one whitespace, one
\* recognised escape target and one unrecognised one
Alphabet == {c_lpar, c_rpar, c_quote, c_escape, 32, 110, 120}

\* ------------------------------------------------------ pure helpers
\* Py_UNICODE_ISSPACE: the ASCII table below 128, the switch above
Py_UNICODE_ISSPACE(ch) ==
    IF ch < 128
    THEN ch \in (9..13) \cup (28..32)
    ELSE ch \in {133, 160, 5760, 8232, 8233, 8239, 8287, 12288} \cup (8192..8202)

\* the code points the escape switch leaves cur_char unchanged for
\* without taking the default branch: \\ \' \"
KeptEscapes == {92, 39, 34}

\* the escape switch's replacements: b f t n r v a
ControlEscapes == {98, 102, 116, 110, 114, 118, 97}

\* the value of cur_char after the escape switch
EscapeChar(ch) ==
    CASE ch = 98 -> 8
      [] ch = 102 -> 12
      [] ch = 116 -> 9
      [] ch = 110 -> 10
      [] ch = 114 -> 13
      [] ch = 118 -> 11
      [] ch = 97 -> 7
      [] OTHER -> ch

\* the default: branch of the escape switch is taken
IsDefaultEscape(ch) == ch \notin (KeptEscapes \cup ControlEscapes)

\* the host constructors
SexpString(text) == [k |-> "SexpString", v |-> text]

SexpList(children) == [k |-> "SexpList", v |-> children]

\* PyList_Append(return_stack.back(), node)
AppendToBack(stack, node) ==
    [stack EXCEPT ![Len(stack)] = Append(@, node)]

\* n copies of x
Rep(x, n) == [j \in 1..n |-> x]

\* PyUnicode_FromString("Malformed sexp: ")
msg_start == <<77, 97, 108, 102, 111, 114, 109, 101, 100, 32,
               115, 101, 120, 112, 58, 32>>

\* MalformedMsg abbreviating every input longer than the 72 it keeps
MalformedMsg_AbbrevAtTo(s) ==
    LET do_abbreviate == Len(s) > AbbrevTo
        shown == IF do_abbreviate THEN SubSeq(s, 1, AbbrevTo) ELSE s
    IN msg_start \o shown

\* the text of the Malformed ValueError for the input s
MalformedMsg(s) ==
    LET do_abbreviate == Len(s) > AbbrevOver
        shown == IF do_abbreviate THEN SubSeq(s, 1, AbbrevTo) ELSE s
    IN msg_start \o shown

\* ------------------------------------------------- the parser state
\* The locals of sexp_parse as one record.  status is "run" while the
\* loop may continue, else the early return taken.  bare_atoms and
\* terminal_esc are history: the texts emitted from the terminal buffer
\* (with, per code point, whether it was pushed while escaped was set).
StartState ==
    [return_stack |-> << <<>> >>,
     quoted       |-> <<>>,
     escaped      |-> FALSE,
     terminal     |-> <<>>,
     terminal_esc |-> <<>>,
     bare_atoms   |-> <<>>,
     status       |-> "run",
     err_index    |-> -1]

\* ConcludeTerminal without  terminal = L""
ConcludeTerminal_KeepBuffer(s) ==
    [s EXCEPT !.return_stack = AppendToBack(@, SexpString(s.terminal)),
              !.bare_atoms = Append(@, [text |-> s.terminal, esc |-> s.terminal_esc])]

\* "conclude terminal": emit the buffered text as a SexpString into the
\* list on top of the stack and clear the buffer
ConcludeTerminal(s) ==
    [s EXCEPT !.return_stack = AppendToBack(@, SexpString(s.terminal)),
              !.bare_atoms = Append(@, [text |-> s.terminal, esc |-> s.terminal_esc]),
              !.terminal = <<>>,
              !.terminal_esc = <<>>]

\* terminal.push_back(c), e telling whether this step began escaped
PushTerminal(s, c, e) ==
    [s EXCEPT !.terminal = Append(@, c), !.terminal_esc = Append(@, e)]

\* IsDelimiter without the test for c_rpar
IsDelimiter_NoRpar(c) ==
    c = c_lpar \/ c = c_quote \/ Py_UNICODE_ISSPACE(c)

\* the delimiter test that concludes a terminal
IsDelimiter(c) ==
    c = c_lpar \/ c = c_rpar \/ c = c_quote \/ Py_UNICODE_ISSPACE(c)

\* A branch yields [s, cur, go]: the state, the (possibly replaced)
\* cur_char, and go = "fall" (control reaches the next statement),
\* "continue" (next iteration) or "return" (sexp_parse returned).
Out(s, cur, go) == [s |-> s, cur |-> cur, go |-> go]

\* TerminalBranch consuming the delimiter that concluded the terminal
TerminalBranch_ConsumeDelimiter(s, ch) ==
    IF s.terminal = <<>> THEN Out(s, ch, "fall")
    ELSE IF s.quoted # <<>>
    THEN Out([s EXCEPT !.status = "AssertionError"], ch, "return")
    ELSE
      LET e == s.escaped
          cur == IF e THEN EscapeChar(ch) ELSE ch
          s1 == IF e /\ IsDefaultEscape(ch) THEN PushTerminal(s, c_escape, e) ELSE s
      IN IF ~e /\ IsDelimiter(cur)
         THEN Out(ConcludeTerminal(s1), cur, "continue")
         ELSE Out([PushTerminal(s1, cur, e) EXCEPT !.escaped = FALSE], cur, "continue")

\* TerminalBranch in which an unescaped backslash read inside a bare atom
\* sets the escaped flag instead of being appended
TerminalBranch_EscapeInAtom(s, ch) ==
    IF s.terminal = <<>> THEN Out(s, ch, "fall")
    ELSE IF s.quoted # <<>>
    THEN Out([s EXCEPT !.status = "AssertionError"], ch, "return")
    ELSE
      LET e == s.escaped
          cur == IF e THEN EscapeChar(ch) ELSE ch
          s1 == IF e /\ IsDefaultEscape(ch) THEN PushTerminal(s, c_escape, e) ELSE s
      IN IF ~e /\ IsDelimiter(cur)
         THEN Out(ConcludeTerminal(s1), cur, "fall")
         ELSE IF ~e /\ ch = c_escape
         THEN Out([s EXCEPT !.escaped = TRUE], ch, "continue")
         ELSE Out([PushTerminal(s1, cur, e) EXCEPT !.escaped = FALSE], cur, "continue")

\* if (!terminal.empty()) { ... }
TerminalBranch(s, ch) ==
    IF s.terminal = <<>> THEN Out(s, ch, "fall")
    ELSE IF s.quoted # <<>>
    THEN Out([s EXCEPT !.status = "AssertionError"], ch, "return")
    ELSE
      LET e == s.escaped
          cur == IF e THEN EscapeChar(ch) ELSE ch
          s1 == IF e /\ IsDefaultEscape(ch) THEN PushTerminal(s, c_escape, e) ELSE s
      IN IF ~e /\ IsDelimiter(cur)
         THEN Out(ConcludeTerminal(s1), cur, "fall")
         ELSE Out([PushTerminal(s1, cur, e) EXCEPT !.escaped = FALSE], cur, "continue")

\* EscapeBranch whose default case keeps the target and drops the backslash
EscapeBranch_DropBackslash(s, ch) ==
    IF s.escaped
    THEN LET cur == EscapeChar(ch)
             s1 == IF ch = c_quote /\ s.quoted # <<>>
                   THEN [s EXCEPT !.quoted = Append(@, c_escape)]
                   ELSE s
         IN Out(s1, cur, "fall")
    ELSE IF ch = c_escape
    THEN Out([s EXCEPT !.escaped = TRUE], ch, "continue")
    ELSE Out(s, ch, "fall")

\* EscapeBranch without  escaped = true; continue : an unescaped backslash
\* is handled like any other code point
EscapeBranch_BackslashFallsThrough(s, ch) ==
    IF s.escaped
    THEN LET cur == EscapeChar(ch)
             s1 == IF ch = c_quote
                   THEN IF s.quoted # <<>>
                        THEN [s EXCEPT !.quoted = Append(@, c_escape)]
                        ELSE s
                   ELSE IF IsDefaultEscape(ch)
                   THEN IF s.quoted # <<>>
                        THEN [s EXCEPT !.quoted = Append(@, c_escape)]
                        ELSE PushTerminal(s, c_escape, TRUE)
                   ELSE s
         IN Out(s1, cur, "fall")
    ELSE Out(s, ch, "fall")

\* EscapeBranch unescaping \" inside a quoted literal like any kept escape
EscapeBranch_UnescapeQuote(s, ch) ==
    IF s.escaped
    THEN LET cur == EscapeChar(ch)
             s1 == IF IsDefaultEscape(ch)
                   THEN IF s.quoted # <<>>
                        THEN [s EXCEPT !.quoted = Append(@, c_escape)]
                        ELSE PushTerminal(s, c_escape, TRUE)
                   ELSE s
         IN Out(s1, cur, "fall")
    ELSE IF ch = c_escape
    THEN Out([s EXCEPT !.escaped = TRUE], ch, "continue")
    ELSE Out(s, ch, "fall")

\* if (escaped) { switch } else if (cur_char == c_escape) { ... }
EscapeBranch(s, ch) ==
    IF s.escaped
    THEN LET cur == EscapeChar(ch)
             s1 == IF ch = c_quote
                   THEN IF s.quoted # <<>>
                        THEN [s EXCEPT !.quoted = Append(@, c_escape)]
                        ELSE s
                   ELSE IF IsDefaultEscape(ch)
                   THEN IF s.quoted # <<>>
                        THEN [s EXCEPT !.quoted = Append(@, c_escape)]
                        ELSE PushTerminal(s, c_escape, TRUE)
                   ELSE s
         IN Out(s1, cur, "fall")
    ELSE IF ch = c_escape
    THEN Out([s EXCEPT !.escaped = TRUE], ch, "continue")
    ELSE Out(s, ch, "fall")

\* QuotedBranch without  escaped = false  when it extends the literal
QuotedBranch_KeepEscaped(s, cur) ==
    IF ~s.escaped /\ cur = c_quote
    THEN LET q == Append(s.quoted, c_quote)
         IN [s EXCEPT !.return_stack = AppendToBack(@, SexpString(q)),
                      !.quoted = <<>>]
    ELSE [s EXCEPT !.quoted = Append(@, cur)]

\* QuotedBranch consuming whitespace inside the literal as it does outside
QuotedBranch_SkipSpace(s, cur) ==
    IF ~s.escaped /\ cur = c_quote
    THEN LET q == Append(s.quoted, c_quote)
         IN [s EXCEPT !.return_stack = AppendToBack(@, SexpString(q)),
                      !.quoted = <<>>]
    ELSE IF ~s.escaped /\ Py_UNICODE_ISSPACE(cur) THEN s
    ELSE [s EXCEPT !.escaped = FALSE, !.quoted = Append(@, cur)]

\* QuotedBranch emitting the literal without its closing quote
QuotedBranch_DropClosingQuote(s, cur) ==
    IF ~s.escaped /\ cur = c_quote
    THEN [s EXCEPT !.return_stack = AppendToBack(@, SexpString(s.quoted)),
                   !.quoted = <<>>]
    ELSE [s EXCEPT !.escaped = FALSE, !.quoted = Append(@, cur)]

\* if (!quoted.empty()) { extend or conclude string literal }
QuotedBranch(s, cur) ==
    IF ~s.escaped /\ cur = c_quote
    THEN LET q == Append(s.quoted, c_quote)
         IN [s EXCEPT !.return_stack = AppendToBack(@, SexpString(q)),
                      !.quoted = <<>>]
    ELSE [s EXCEPT !.escaped = FALSE, !.quoted = Append(@, cur)]

\* CloseList reporting the index counted from 1
CloseList_IndexFromOne(s, i) ==
    LET children == s.return_stack[Len(s.return_stack)]
        popped == SubSeq(s.return_stack, 1, Len(s.return_stack) - 1)
    IN IF popped = <<>>
       THEN [s EXCEPT !.return_stack = popped,
                      !.status = "ExtraClose",
                      !.err_index = i + 1]
       ELSE [s EXCEPT !.return_stack = AppendToBack(popped, SexpList(children))]

\* CloseList extending the parent with the children instead of wrapping them
CloseList_Splice(s, i) ==
    LET children == s.return_stack[Len(s.return_stack)]
        popped == SubSeq(s.return_stack, 1, Len(s.return_stack) - 1)
    IN IF popped = <<>>
       THEN [s EXCEPT !.return_stack = popped,
                      !.status = "ExtraClose",
                      !.err_index = i]
       ELSE [s EXCEPT !.return_stack =
                         [popped EXCEPT ![Len(popped)] = @ \o children]]

\* the right paren: pop, fail on an empty stack, else wrap and append
CloseList(s, i) ==
    LET children == s.return_stack[Len(s.return_stack)]
        popped == SubSeq(s.return_stack, 1, Len(s.return_stack) - 1)
    IN IF popped = <<>>
       THEN [s EXCEPT !.return_stack = popped,
                      !.status = "ExtraClose",
                      !.err_index = i]
       ELSE [s EXCEPT !.return_stack = AppendToBack(popped, SexpList(children))]

\* StructuralBranch ignoring a ")" that has no list to close
StructuralBranch_IgnoreExtraClose(s, cur, i) ==
    IF Py_UNICODE_ISSPACE(cur) THEN s
    ELSE IF cur = c_lpar THEN [s EXCEPT !.return_stack = Append(@, <<>>)]
    ELSE IF cur = c_rpar
    THEN IF Len(s.return_stack) = 1 THEN s ELSE CloseList(s, i)
    ELSE IF cur = c_quote THEN [s EXCEPT !.quoted = <<c_quote>>]
    ELSE [PushTerminal(s, cur, FALSE) EXCEPT !.escaped = FALSE]

\* else if (!escaped) { whitespace, (, ), ", token start }
StructuralBranch(s, cur, i) ==
    IF Py_UNICODE_ISSPACE(cur) THEN s
    ELSE IF cur = c_lpar THEN [s EXCEPT !.return_stack = Append(@, <<>>)]
    ELSE IF cur = c_rpar THEN CloseList(s, i)
    ELSE IF cur = c_quote THEN [s EXCEPT !.quoted = <<c_quote>>]
    ELSE [PushTerminal(s, cur, FALSE) EXCEPT !.escaped = FALSE]

\* else { Start a normal token (with an escaped first character) }
EscapedStartBranch(s, cur) ==
    [PushTerminal(s, cur, TRUE) EXCEPT !.escaped = FALSE]

\* one iteration of the for loop on code point ch at index i
LoopBody(s, ch, i) ==
    LET a == TerminalBranch(s, ch)
    IN IF a.go # "fall" THEN a.s
       ELSE LET b == EscapeBranch(a.s, a.cur)
            IN IF b.go # "fall" THEN b.s
               ELSE IF b.s.quoted # <<>> THEN QuotedBranch(b.s, b.cur)
               ELSE IF ~b.s.escaped THEN StructuralBranch(b.s, b.cur, i)
               ELSE EscapedStartBranch(b.s, b.cur)

\* after the loop: flush a pending terminal
FlushTerminal(s) ==
    IF s.terminal # <<>> THEN ConcludeTerminal(s) ELSE s

\* IsMalformed without the test for lists still open
IsMalformed_EmptyOnly(s) ==
    Len(s.return_stack[1]) = 0

\* IsMalformed without the test for an empty top-level list
IsMalformed_DepthOnly(s) ==
    Len(s.return_stack) # 1

\* the final validation fails
IsMalformed(s) ==
    Len(s.return_stack) # 1 \/ Len(s.return_stack[1]) = 0

\* the whole loop from state s over text[from..Len(text)], stopping at
\* an early return; from is 1-based, the index passed on is 0-based
RECURSIVE RunLoop(_, _, _)
RunLoop(s, text, from) ==
    IF from > Len(text) \/ s.status # "run" THEN s
    ELSE RunLoop(LoopBody(s, text[from], from - 1), text, from + 1)

\* sexp_parse as a function of its input: [kind, tree, index, msg]
sexp_parse(text) ==
    LET s == RunLoop(StartState, text, 1)
        f == FlushTerminal(s)
    IN IF s.status = "AssertionError"
       THEN [kind |-> "AssertionError", tree |-> <<>>, index |-> -1, msg |-> <<>>]
       ELSE IF s.status = "ExtraClose"
       THEN [kind |-> "ExtraClose", tree |-> <<>>, index |-> s.err_index, msg |-> text]
       ELSE IF IsMalformed(f)
       THEN [kind |-> "Malformed", tree |-> <<>>, index |-> -1, msg |-> MalformedMsg(text)]
       ELSE [kind |-> "ok", tree |-> <<f.return_stack[1]>>, index |-> -1, msg |-> <<>>]

\* ------------------------------------------------------------ inputs
\* every sequence over Alphabet of length 0..MaxLen
Strings == UNION {[1..n -> Alphabet] : n \in 0..MaxLen}

\* (a b (c d) e)
InNested == <<40, 97, 32, 98, 32, 40, 99, 32, 100, 41, 32, 101, 41>>

\* (a)) followed by a space
InExtraClose == <<40, 97, 41, 41, 32>>

\* tok\nend : t o k backslash n e n d
InTokNEnd == <<116, 111, 107, 92, 110, 101, 110, 100>>

\* "a\"b" : quote a backslash quote b quote
InEscQuote == <<34, 97, 92, 34, 98, 34>>

\* a "bc
InOpenQuote == <<97, 32, 34, 98, 99>>

\* (unterminated
InUnterminated == <<40, 117, 110, 116, 101, 114, 109, 105, 110, 97, 116, 101, 100>>

\* an unclosed list of n code points: ( then x ... x
LongOpen(n) == <<c_lpar>> \o Rep(120, n - 1)

\* malformed inputs around the two lengths of the abbreviation rule
LongInputs ==
    {LongOpen(n) : n \in {AbbrevTo, AbbrevTo + 1, AbbrevOver, AbbrevOver + 1}}

Examples ==
    {InNested, InExtraClose, InTokNEnd, InEscQuote, InOpenQuote, InUnterminated}

Inputs == Strings \cup Examples \cup LongInputs

\* ------------------------------------------------------------- state
VARIABLES
    sexp_str,     \* the input text
    i,            \* the loop index, 0-based
    st,           \* the locals: return_stack, quoted, escaped, terminal, ...
    pc,           \* "loop" inside the for loop, "done" after sexp_parse returned
    outcome,      \* "running", "ok", "ExtraClose", "Malformed", "AssertionError"
    ret,          \* the returned PyList as <<children>>, <<>> for NULL
    err_msg,      \* the text carried by the error set, <<>> if none
    n_lpar,       \* history: loop steps that read "(" with escaped clear, no literal open
    n_rpar        \* history: loop steps that read ")" with escaped clear, no literal open

vars == <<sexp_str, i, st, pc, outcome, ret, err_msg, n_lpar, n_rpar>>

str_len == Len(sexp_str)

return_stack == st.return_stack

quoted == st.quoted

escaped == st.escaped

terminal == st.terminal

Init ==
    /\ sexp_str \in Inputs
    /\ i = 0
    /\ st = StartState
    /\ pc = "loop"
    /\ outcome = "running"
    /\ ret = <<>>
    /\ err_msg = <<>>
    /\ n_lpar = 0
    /\ n_rpar = 0

\* the step reads the code point c as a structural character: the
\* escaped flag is clear and no quoted literal is open
ReadsStructural(c) ==
    /\ sexp_str[i + 1] = c
    /\ ~st.escaped
    /\ st.quoted = <<>>

\* one iteration of  for (int i = 0; i < str_len; i++)
ProcessChar ==
    /\ pc = "loop"
    /\ i < str_len
    /\ n_lpar' = n_lpar + (IF ReadsStructural(c_lpar) THEN 1 ELSE 0)
    /\ n_rpar' = n_rpar + (IF ReadsStructural(c_rpar) THEN 1 ELSE 0)
    /\ LET s == LoopBody(st, sexp_str[i + 1], i)
       IN /\ st' = s
          /\ IF s.status = "run"
             THEN /\ i' = i + 1
                  /\ UNCHANGED <<pc, outcome, ret, err_msg>>
             ELSE /\ i' = i
                  /\ pc' = "done"
                  /\ outcome' = s.status
                  /\ ret' = <<>>
                  /\ err_msg' = IF s.status = "ExtraClose" THEN sexp_str ELSE <<>>
    /\ UNCHANGED sexp_str

\* Finish handing back the top-level list although it raised Malformed
Finish_PartialTree ==
    /\ pc = "loop"
    /\ i = str_len
    /\ LET f == FlushTerminal(st)
       IN /\ st' = f
          /\ IF IsMalformed(f)
             THEN /\ outcome' = "Malformed"
                  /\ ret' = <<f.return_stack[1]>>
                  /\ err_msg' = MalformedMsg(sexp_str)
             ELSE /\ outcome' = "ok"
                  /\ ret' = <<f.return_stack[1]>>
                  /\ err_msg' = <<>>
    /\ pc' = "done"
    /\ UNCHANGED <<sexp_str, i, n_lpar, n_rpar>>

\* the code after the loop: flush, validate, return
Finish ==
    /\ pc = "loop"
    /\ i = str_len
    /\ LET f == FlushTerminal(st)
       IN /\ st' = f
          /\ IF IsMalformed(f)
             THEN /\ outcome' = "Malformed"
                  /\ ret' = <<>>
                  /\ err_msg' = MalformedMsg(sexp_str)
             ELSE /\ outcome' = "ok"
                  /\ ret' = <<f.return_stack[1]>>
                  /\ err_msg' = <<>>
    /\ pc' = "done"
    /\ UNCHANGED <<sexp_str, i, n_lpar, n_rpar>>

Next == ProcessChar \/ Finish

Spec == Init /\ [][Next]_vars

\* the inputs of the termination check: as Inputs, one code point shorter
FairInputs ==
    UNION {[1..n -> Alphabet] : n \in 0..(MaxLen - 1)} \cup Examples \cup LongInputs

FairInit ==
    /\ sexp_str \in FairInputs
    /\ i = 0
    /\ st = StartState
    /\ pc = "loop"
    /\ outcome = "running"
    /\ ret = <<>>
    /\ err_msg = <<>>
    /\ n_lpar = 0
    /\ n_rpar = 0

\* the call runs to completion: a step that can be taken is taken
FairSpec == FairInit /\ [][Next]_vars /\ WF_vars(Next)

TypeOK ==
    /\ pc \in {"loop", "done"}
    /\ outcome \in {"running", "ok", "ExtraClose", "Malformed", "AssertionError"}
    /\ i \in 0..str_len
    /\ Len(st.terminal) = Len(st.terminal_esc)
    /\ (pc = "done") = (outcome # "running")
    /\ pc = "done" =>
         LET r == sexp_parse(sexp_str)
         IN r.kind = outcome /\ r.tree = ret /\ r.msg = err_msg

\* ------------------------------------------------------------ claims
\* the code point ProcessChar is about to read
cur_char == sexp_str[i + 1]

\* a step of the for loop (not the code after it)
InLoopStep == pc = "loop" /\ i < str_len

\* C1: whenever sexp_parse has returned with a quoted literal still open
\* at the end of the input, the outcome is the Malformed-sexp error and no
\* tree is returned, whatever the top-level list holds.
C1_OpenQuoteMalformed ==
    (pc = "done" /\ quoted # <<>>) => (outcome = "Malformed" /\ ret = <<>>)

\* C2: a loop step raises the unmatched-close error exactly when it reads
\* a ")" with the escaped flag clear, no quoted literal open and only the
\* top-level list on the stack; the step is the last one (the index does
\* not advance), the reported index is the index of that ")", and a
\* pending atom is emitted first.  (a)) followed by a space reports 3.
C2_ExtraClose ==
    [][InLoopStep =>
        /\ (outcome' = "ExtraClose") <=>
             (cur_char = c_rpar /\ ~escaped /\ quoted = <<>> /\ Len(return_stack) = 1)
        /\ outcome' = "ExtraClose" =>
             /\ st'.err_index = i
             /\ i' = i
             /\ pc' = "done"
             /\ ret' = <<>>
             /\ err_msg' = sexp_str
             /\ terminal # <<>> =>
                  st'.bare_atoms = Append(st.bare_atoms,
                                          [text |-> terminal, esc |-> st.terminal_esc])
             /\ sexp_str = InExtraClose => st'.err_index = 3
        /\ (sexp_str = InExtraClose /\ pc' = "done") => outcome' = "ExtraClose"
      ]_vars

\* C2 witness: the error raised by a ")" that arrived while an atom was open
C2_Witness ==
    /\ outcome = "ExtraClose"
    /\ i >= 1
    /\ sexp_str[i] = 120
    /\ st.err_index = i
    /\ st.bare_atoms # <<>>

\* an input made of whitespace only (the empty input included)
AllSpace(s) == \A j \in 1..Len(s) : Py_UNICODE_ISSPACE(s[j])

\* an input without quote or backslash whose last code point is "("
EndsOpen(s) ==
    /\ s # <<>>
    /\ s[Len(s)] = c_lpar
    /\ \A j \in 1..Len(s) : s[j] # c_quote /\ s[j] # c_escape

\* C3: when no unmatched-close error was raised, sexp_parse succeeds iff
\* after the flush the stack holds exactly one list with at least one
\* child; otherwise it fails with the Malformed error, raised only after
\* every code point was processed.  Empty and whitespace-only inputs and
\* inputs ending in an unclosed "(" are malformed.
C3_FinalValidation ==
    (pc = "done" /\ outcome \notin {"ExtraClose", "AssertionError"}) =>
        /\ i = str_len
        /\ terminal = <<>>
        /\ (outcome = "ok") <=> (Len(return_stack) = 1 /\ Len(return_stack[1]) >= 1)
        /\ outcome = "ok" => ret = <<return_stack[1]>>
        /\ outcome # "ok" => (outcome = "Malformed" /\ ret = <<>>)
        /\ AllSpace(sexp_str) => outcome = "Malformed"
        /\ EndsOpen(sexp_str) => outcome = "Malformed"

\* C3 witness: a Malformed failure with a list still open at the end
C3_Witness ==
    /\ pc = "done"
    /\ outcome = "Malformed"
    /\ Len(return_stack) > 1
    /\ Len(return_stack[1]) >= 1

\* C4: the input tok\nend parses to one atom: tok, a newline, end.
C4_BareAtomEscape ==
    (pc = "done" /\ sexp_str = InTokNEnd) =>
        /\ outcome = "ok"
        /\ ret = << <<SexpString(<<116, 111, 107, 10, 101, 110, 100>>)>> >>

\* C5: inside a quoted literal an escaped quote is stored as backslash +
\* quote and does not end the literal; a step ends the literal only when
\* it reads a quote with the escaped flag clear.  "a\"b" parses to one atom
\* holding those six code points.  With no literal open an escaped quote
\* starts a bare atom holding the quote alone.
C5_EscapedQuote ==
    [][/\ (InLoopStep /\ quoted # <<>> /\ escaped /\ cur_char = c_quote) =>
            /\ st'.quoted = quoted \o <<c_escape, c_quote>>
            /\ st'.return_stack = return_stack
            /\ ~st'.escaped
       /\ (InLoopStep /\ quoted # <<>> /\ st'.quoted = <<>>) =>
            /\ cur_char = c_quote
            /\ ~escaped
            /\ st'.return_stack =
                 AppendToBack(return_stack, SexpString(Append(quoted, c_quote)))
       /\ (InLoopStep /\ quoted = <<>> /\ escaped /\ cur_char = c_quote) =>
            /\ st'.terminal = <<c_quote>>
            /\ st'.quoted = <<>>
       /\ (sexp_str = InEscQuote /\ pc' = "done") =>
            (outcome' = "ok" /\ ret' = << <<SexpString(InEscQuote)>> >>)
      ]_vars

\* C5 witness: "a\"b" parsed, the escaped quote kept inside the atom
C5_Witness ==
    /\ pc = "done"
    /\ sexp_str = InEscQuote
    /\ outcome = "ok"
    /\ Len(ret[1]) = 1
    /\ ret[1][1].v[4] = c_quote

\* the atoms of (a b (c d) e)
AtomA == SexpString(<<97>>)

AtomB == SexpString(<<98>>)

AtomC == SexpString(<<99>>)

AtomD == SexpString(<<100>>)

AtomE == SexpString(<<101>>)

\* C6 as stated: (a b (c d) e) yields a top-level list with the 4
\* children a, b, [c, d], e.
C6_NestedFourChildren ==
    (pc = "done" /\ sexp_str = InNested) =>
        /\ outcome = "ok"
        /\ ret = << <<AtomA, AtomB, SexpList(<<AtomC, AtomD>>), AtomE>> >>

\* C6 amended: (a b (c d) e) yields a top-level list with one child, the
\* list whose 4 children are a, b, [c, d], e.
C6_NestedOneChild ==
    (pc = "done" /\ sexp_str = InNested) =>
        /\ outcome = "ok"
        /\ ret = << <<SexpList(<<AtomA, AtomB, SexpList(<<AtomC, AtomD>>), AtomE>>)>> >>

\* C6 witness: (a b (c d) e) parsed
C6_Witness ==
    /\ pc = "done"
    /\ sexp_str = InNested
    /\ outcome = "ok"
    /\ Len(ret[1]) = 1
    /\ Len(ret[1][1].v) = 4

\* C7: the Malformed message is "Malformed sexp: " followed by the whole
\* input when it has at most 100 code points and by exactly its first 72
\* code points when it has more.
C7_MalformedMessage ==
    outcome = "Malformed" =>
        LET n == IF str_len <= 100 THEN str_len ELSE 72
        IN /\ Len(err_msg) = Len(msg_start) + n
           /\ SubSeq(err_msg, 1, Len(msg_start)) = msg_start
           /\ \A j \in 1..n : err_msg[Len(msg_start) + j] = sexp_str[j]

\* C7 witness: a malformed input of more than 100 code points
C7_Witness ==
    /\ outcome = "Malformed"
    /\ str_len > 100
    /\ Len(err_msg) = 16 + 72

\* the serialization of the round trip: an atom is its text, a list is
\* "(" + its children joined by single spaces + ")"
RECURSIVE SerializeNode(_), SerializeChildren(_)
SerializeNode(node) ==
    IF node.k = "SexpString" THEN node.v
    ELSE <<c_lpar>> \o SerializeChildren(node.v) \o <<c_rpar>>

SerializeChildren(children) ==
    IF children = <<>> THEN <<>>
    ELSE IF Len(children) = 1 THEN SerializeNode(children[1])
    ELSE SerializeNode(children[1]) \o <<32>> \o SerializeChildren(Tail(children))

NoBackslash(s) == \A j \in 1..Len(s) : s[j] # c_escape

\* C8: for an input without backslash that parses, serializing the tree
\* and parsing the text again succeeds with an equal tree.
C8_RoundTrip ==
    (pc = "done" /\ outcome = "ok" /\ NoBackslash(sexp_str)) =>
        LET again == sexp_parse(SerializeChildren(ret[1]))
        IN again.kind = "ok" /\ again.tree = ret

\* C8 witness: a tree with a nested list and a quoted atom whose
\* serialization differs from the input
C8_Witness ==
    /\ pc = "done"
    /\ outcome = "ok"
    /\ NoBackslash(sexp_str)
    /\ SerializeChildren(ret[1]) # sexp_str
    /\ \E a, b \in 1..Len(ret[1]) :
          /\ ret[1][a].k = "SexpList"
          /\ ret[1][b].k = "SexpString"
          /\ ret[1][b].v[1] = c_quote

\* C9: terminal and quoted are never both non-empty, and the
\* AssertionError outcome is never reached.
C9_BuffersExclusive ==
    /\ ~(terminal # <<>> /\ quoted # <<>>)
    /\ outcome # "AssertionError"
    /\ st.status # "AssertionError"

\* C9 witness: a quoted literal opened by the quote that concluded an atom
C9_Witness ==
    /\ pc = "loop"
    /\ i >= 2
    /\ sexp_str[i] = c_quote
    /\ sexp_str[i - 1] = 120
    /\ quoted = <<c_quote>>
    /\ terminal = <<>>
    /\ st.bare_atoms # <<>>

IsParen(c) == c = c_lpar \/ c = c_rpar

\* C10 as stated: a bare atom's text holds no "(" and no ")", and no
\* whitespace that was not written as an escape.
C10_NoDelimiters ==
    \A a \in 1..Len(st.bare_atoms) :
        LET atom == st.bare_atoms[a]
        IN \A j \in 1..Len(atom.text) :
              /\ ~IsParen(atom.text[j])
              /\ Py_UNICODE_ISSPACE(atom.text[j]) => atom.esc[j]

\* C10 amended: in a bare atom's text every "(", ")" and whitespace code
\* point was written as an escape (pushed by a step that began with the
\* escaped flag set).
C10_NoUnescapedDelimiters ==
    \A a \in 1..Len(st.bare_atoms) :
        LET atom == st.bare_atoms[a]
        IN \A j \in 1..Len(atom.text) :
              (IsParen(atom.text[j]) \/ Py_UNICODE_ISSPACE(atom.text[j]))
                  => atom.esc[j]

\* C10 witness: an emitted bare atom holding an escaped parenthesis
C10_Witness ==
    /\ pc = "done"
    /\ outcome = "ok"
    /\ \E a \in 1..Len(st.bare_atoms) :
          \E j \in 1..Len(st.bare_atoms[a].text) :
              IsParen(st.bare_atoms[a].text[j]) /\ st.bare_atoms[a].esc[j]

\* C11: sexp_parse terminates; every loop step either advances the index
\* by exactly one or is the step that returns (the index never goes
\* back); the call ends in exactly one of ok, ExtraClose, Malformed,
\* AssertionError, with a single top-level list on ok and no tree on error.
C11_TerminatesAllOrNothing ==
    /\ <>(pc = "done")
    /\ [][/\ InLoopStep =>
               \/ (i' = i + 1 /\ pc' = "loop" /\ outcome' = "running")
               \/ (i' = i /\ pc' = "done"
                     /\ outcome' \in {"ExtraClose", "AssertionError"})
          /\ (pc = "loop" /\ ~InLoopStep) =>
               (i' = i /\ pc' = "done" /\ outcome' \in {"ok", "Malformed"})
          /\ pc' = "done" =>
               /\ (outcome' = "ok") <=> (ret' # <<>>)
               /\ Len(ret') <= 1
               /\ (outcome' \in {"ExtraClose", "Malformed"}) <=> (err_msg' # <<>>)
         ]_vars
    /\ [](pc = "loop" => (outcome = "running" /\ ret = <<>> /\ err_msg = <<>>))

\* C11 witness: a call that ended in an error after the whole input was read
C11_Witness ==
    /\ pc = "done"
    /\ outcome = "Malformed"
    /\ i = str_len
    /\ str_len >= 3
    /\ Len(return_stack[1]) >= 1
    /\ ret = <<>>

\* the number of SexpList nodes in a sequence of nodes, at any depth
RECURSIVE CountLists(_)
CountLists(children) ==
    IF children = <<>> THEN 0
    ELSE (IF children[1].k = "SexpList" THEN 1 + CountLists(children[1].v) ELSE 0)
         + CountLists(Tail(children))

\* the number of SexpList nodes held by the accumulators of a stack
RECURSIVE ListsIn(_)
ListsIn(stack) ==
    IF stack = <<>> THEN 0 ELSE CountLists(stack[1]) + ListsIn(Tail(stack))

\* the number of occurrences of c in s
NumOf(s, c) == Cardinality({j \in 1..Len(s) : s[j] = c})

\* C12: an accumulator is pushed only by a structural "(" and popped only
\* by a structural ")"; a List node comes into being only in the step
\* that reads a structural ")" and pops an accumulator, whose children it
\* wraps; nothing is pushed, popped or wrapped while a quoted literal is
\* open or by the code after the loop.  So on success no accumulator is
\* left open and the tree holds exactly one List node per structural ")",
\* each matching a structural "(".
C12_ListsAreClosed ==
    /\ [][/\ InLoopStep =>
               /\ Len(st'.return_stack) > Len(return_stack) =>
                    (ReadsStructural(c_lpar) /\ Len(st'.return_stack) = Len(return_stack) + 1)
               /\ Len(st'.return_stack) < Len(return_stack) =>
                    (ReadsStructural(c_rpar) /\ Len(st'.return_stack) = Len(return_stack) - 1)
               /\ ListsIn(st'.return_stack) < ListsIn(return_stack) =>
                    (outcome' = "ExtraClose" /\ ret' = <<>>)
               /\ ListsIn(st'.return_stack) > ListsIn(return_stack) =>
                    /\ ReadsStructural(c_rpar)
                    /\ Len(return_stack) > 1
                    /\ ListsIn(st'.return_stack) = ListsIn(return_stack) + 1
                    /\ LET top == st'.return_stack[Len(st'.return_stack)]
                       IN /\ top[Len(top)].k = "SexpList"
                          /\ top[Len(top)].v \in
                               {return_stack[Len(return_stack)],
                                Append(return_stack[Len(return_stack)], SexpString(terminal))}
               /\ quoted # <<>> =>
                    /\ Len(st'.return_stack) = Len(return_stack)
                    /\ ListsIn(st'.return_stack) = ListsIn(return_stack)
          /\ (pc = "loop" /\ ~InLoopStep) =>
               /\ Len(st'.return_stack) = Len(return_stack)
               /\ ListsIn(st'.return_stack) = ListsIn(return_stack)
         ]_vars
    /\ [](outcome = "ok" =>
            /\ Len(return_stack) = 1
            /\ ret = <<return_stack[1]>>
            /\ CountLists(ret[1]) = n_rpar
            /\ n_lpar = n_rpar)

\* C12 witness: a returned tree with a List node, from an input that also
\* holds a parenthesis inside a quoted literal
C12_Witness ==
    /\ outcome = "ok"
    /\ CountLists(ret[1]) >= 1
    /\ NoBackslash(sexp_str)
    /\ quoted = <<>>
    /\ NumOf(sexp_str, c_lpar) > n_lpar

\* the number of consecutive backslashes of the input that end at
\* position j (1-based)
RECURSIVE BackslashRun(_)
BackslashRun(j) ==
    IF j >= 1 /\ sexp_str[j] = c_escape THEN 1 + BackslashRun(j - 1) ELSE 0

\* the code point about to be read is immediately preceded by an
\* escaping backslash: one that is not itself the target of an escape
AfterEscapingBackslash == BackslashRun(i) % 2 = 1

\* C13: while the atom buffer is non-empty, a "(", ")", quote or
\* whitespace immediately preceded by an escaping backslash does not
\* conclude the atom: it is appended to the same buffer, no Atom is
\* emitted, no list is pushed or popped and no quoted literal is opened.
C13_EscapedDelimiterKept ==
    [][(InLoopStep /\ terminal # <<>> /\ IsDelimiter(cur_char) /\ AfterEscapingBackslash) =>
          /\ Len(st'.terminal) > Len(terminal)
          /\ SubSeq(st'.terminal, 1, Len(terminal)) = terminal
          /\ st'.terminal[Len(st'.terminal)] = cur_char
          /\ st'.return_stack = return_stack
          /\ st'.quoted = <<>>
      ]_vars

\* C14: a loop step that reads an unescaped "(", ")", quote or whitespace
\* with the atom buffer non-empty appends one Atom with the buffered text
\* to the list on top of the stack, empties the buffer, and then does to
\* that code point what the loop body does from the state with the buffer
\* empty: push a list, pop a list or raise the unmatched-close error, open
\* a quoted literal, or skip.  The delimiter is not part of the atom.
C14_FlushThenReprocess ==
    [][(InLoopStep /\ terminal # <<>> /\ ~escaped /\ IsDelimiter(cur_char)) =>
          LET flushed == AppendToBack(return_stack, SexpString(terminal))
              depth == Len(return_stack)
              fresh == [st EXCEPT !.return_stack = flushed,
                                  !.terminal = <<>>,
                                  !.terminal_esc = <<>>,
                                  !.bare_atoms = Append(@, [text |-> terminal,
                                                            esc |-> st.terminal_esc])]
          IN /\ st' = LoopBody(fresh, cur_char, i)
             /\ st'.terminal = <<>>
             /\ st'.bare_atoms[Len(st'.bare_atoms)].text = terminal
             /\ cur_char = c_lpar =>
                  (st'.return_stack = Append(flushed, <<>>) /\ st'.quoted = <<>>)
             /\ cur_char = c_quote =>
                  (st'.return_stack = flushed /\ st'.quoted = <<c_quote>>)
             /\ Py_UNICODE_ISSPACE(cur_char) =>
                  (st'.return_stack = flushed /\ st'.quoted = <<>>)
             /\ (cur_char = c_rpar /\ depth > 1) =>
                  /\ st'.return_stack =
                       AppendToBack(SubSeq(flushed, 1, depth - 1), SexpList(flushed[depth]))
                  /\ st'.quoted = <<>>
             /\ (cur_char = c_rpar /\ depth = 1) =>
                  (outcome' = "ExtraClose" /\ st'.err_index = i)
      ]_vars

\* C14 witness: x( read: the atom x emitted, then the list pushed
C14_Witness ==
    /\ pc = "loop"
    /\ i = 2
    /\ sexp_str[1] = 120
    /\ sexp_str[2] = c_lpar
    /\ return_stack = << <<SexpString(<<120>>)>>, <<>> >>
    /\ terminal = <<>>

C16_EscapedOneStep ==
    /\ [](i = 0 => ~escaped)
    /\ [][/\ (InLoopStep /\ escaped) => ~st'.escaped
          /\ (InLoopStep /\ ~escaped /\ st'.escaped) => cur_char = c_escape
          /\ (pc = "loop" /\ ~InLoopStep) => st'.escaped = escaped
         ]_vars

\* C16 witness: "\\ read: the flag set by the first backslash is clear
\* again after the second, inside a quoted literal
C16_Witness ==
    /\ pc = "loop"
    /\ i = 3
    /\ quoted = <<c_quote, c_escape>>
    /\ ~escaped

\* C17: an open quoted buffer begins with the quote.  The step that
\* empties it reads the closing quote and appends, to the list on top of
\* the stack, one Atom whose text is the buffer plus that quote: at least
\* two code points, first and last a quote.  Until then every "(", ")"
\* and whitespace read is appended to the buffer, in input order, and the
\* stack does not change.
C17_QuotedAtom ==
    /\ [](quoted # <<>> => quoted[1] = c_quote)
    /\ [][(InLoopStep /\ quoted # <<>>) =>
             LET text == Append(quoted, c_quote)
             IN /\ (~escaped /\ cur_char = c_quote) <=> (st'.quoted = <<>>)
                /\ st'.quoted = <<>> =>
                     /\ Len(text) >= 2
                     /\ text[1] = c_quote
                     /\ text[Len(text)] = c_quote
                     /\ st'.return_stack = AppendToBack(return_stack, SexpString(text))
                /\ st'.quoted # <<>> => st'.return_stack = return_stack
                /\ (IsParen(cur_char) \/ Py_UNICODE_ISSPACE(cur_char)) =>
                     /\ Len(st'.quoted) > Len(quoted)
                     /\ SubSeq(st'.quoted, 1, Len(quoted)) = quoted
                     /\ st'.quoted[Len(st'.quoted)] = cur_char
                     /\ st'.return_stack = return_stack
         ]_vars

\* C17 witness: "( )" parsed to one atom holding all five code points
C17_Witness ==
    /\ pc = "done"
    /\ outcome = "ok"
    /\ ret = << <<SexpString(<<c_quote, c_lpar, 32, c_rpar, c_quote>>)>> >>

\* C18: while the loop runs the stack holds at least one list; its size
\* is always 1 + the structural "(" read - the structural ")" read; it is
\* empty exactly in the state the unmatched-close error leaves, and then
\* sexp_parse has returned.
C18_StackDepth ==
    /\ Len(return_stack) = 1 + n_lpar - n_rpar
    /\ pc = "loop" => Len(return_stack) >= 1
    /\ (return_stack = <<>>) <=> (outcome = "ExtraClose")
    /\ outcome = "ExtraClose" => (pc = "done" /\ ~ENABLED Next)

\* C18 witness: one list open, and a ")" already read that was not
\* structural (inside a quoted literal or escaped)
C18_Witness ==
    /\ pc = "loop"
    /\ n_lpar = 1
    /\ n_rpar = 0
    /\ Len(return_stack) = 2
    /\ \E j \in 1..i : sexp_str[j] = c_rpar

\* the loop has read the whole input and the code after it has not run
EndOfLoop == pc = "loop" /\ i = str_len

\* parsing the input followed by one backslash ends as the call on the
\* input itself is about to end (or has ended, on an unmatched close)
SameWithTrailingBackslash ==
    LET more == sexp_parse(Append(sexp_str, c_escape))
    IN IF outcome = "ExtraClose"
       THEN more.kind = "ExtraClose" /\ more.index = st.err_index /\ more.tree = <<>>
       ELSE IF IsMalformed(st)
       THEN more.kind = "Malformed" /\ more.tree = <<>>
       ELSE more.kind = "ok" /\ more.tree = <<return_stack[1]>>

\* C19 as stated: for every input that ends with no bare atom open,
\* the input followed by one backslash gives the same outcome kind and,
\* on success, the same tree.
C19_TrailingBackslash ==
    ((EndOfLoop /\ terminal = <<>>) \/ outcome = "ExtraClose")
        => SameWithTrailingBackslash

\* C19 amended: the same for every input that ends with no bare atom
\* open and with the escaped flag clear.
C19_TrailingBackslashUnescaped ==
    ((EndOfLoop /\ terminal = <<>> /\ ~escaped) \/ outcome = "ExtraClose")
        => SameWithTrailingBackslash

\* C19 witness: an input about to succeed, no atom open, flag clear
C19_Witness ==
    /\ EndOfLoop
    /\ terminal = <<>>
    /\ ~escaped
    /\ ~IsMalformed(st)
    /\ str_len >= 2
    /\ sexp_parse(Append(sexp_str, c_escape)).kind = "ok"

\* C20: at the start of processing a code point the escaped flag is never
\* true while the atom buffer is non-empty, and a step that sets the flag
\* starts and ends with the atom buffer empty; so the escape switch of the
\* non-empty-atom branch (entered with terminal non-empty and the flag
\* set) is never executed.
C20_NoEscapeInAtom ==
    /\ [](pc = "loop" => ~(escaped /\ terminal # <<>>))
    /\ [][(InLoopStep /\ ~escaped /\ st'.escaped)
            => (terminal = <<>> /\ st'.terminal = <<>>)]_vars

\* C20 witness: a bare atom is open that holds a backslash read while the
\* atom was already open, and the flag is clear
C20_Witness ==
    /\ pc = "loop"
    /\ ~escaped
    /\ \E j \in 2..Len(terminal) :
          terminal[j] = c_escape /\ ~st.terminal_esc[j]
====
